---- MODULE Spec2Model ----
(***************************************************************************)
(* Energy-meter ingestion service: the storage connector's status          *)
(* variables, the EnergyMeter model and the three HTTP routes              *)
(* (GET /, POST /, GET /readings) of index.js.                             *)
(***************************************************************************)
EXTENDS Integers, Sequences, FiniteSets, TLC

VARIABLES
  mongoConnectionStatus, \* let mongoConnectionStatus
  mongoError,            \* let mongoError
  connectPc,             \* position of connectMongoDB(): awaiting / resolved / rejected
  mongodbUri,            \* process.env.MONGODB_URI
  strictQuery,           \* the installed mongoose's strictQuery default
  store,                 \* the EnergyMeter collection, in insertion order
  nextId,                \* next generated _id
  now,                   \* the clock read by Date.now / new Date()
  reqs,                  \* one record per HTTP connection: the request being handled
  posted                 \* history: the request body each stored document came from

vars == <<mongoConnectionStatus, mongoError, connectPc, mongodbUri, strictQuery,
          store, nextId, now, reqs, posted>>

----------------------------------------------------------------------------
(* Bounds of the model *)

MaxConns == 2
MaxPosts == 2
MaxIngestPosts == 1
MaxQueryPosts == 2
MaxTime == 2

(* Program constants *)
DefaultLimit == 50

----------------------------------------------------------------------------
(* JavaScript values: undefined, null, numbers and strings *)

Undef == [t |-> "undefined", n |-> 0, s |-> ""]
Null == [t |-> "null", n |-> 0, s |-> ""]
Num(x) == [t |-> "number", n |-> x, s |-> ""]
Str(x) == [t |-> "string", n |-> 0, s |-> x]
\* the non-finite results of a division by zero
NonFinite(x) == [t |-> "number", n |-> 0, s |-> x]

Abs(x) == IF x < 0 THEN -x ELSE x

\* JavaScript truthiness: undefined, null, 0, NaN and "" are falsy
Truthy(v) ==
  CASE v.t = "undefined" -> FALSE
    [] v.t = "null" -> FALSE
    [] v.t = "number" -> v.n # 0 \/ v.s = "Infinity"
    [] v.t = "string" -> v.s # ""
    [] OTHER -> TRUE

----------------------------------------------------------------------------
(* Request bodies *)

BodyKeys == {"vol", "current", "power", "energy", "frequency", "pf", "deviceId", "location"}
DataKeys == {"voltage", "current", "power", "energy", "frequency", "powerFactor",
             "deviceId", "location"}
\* the paths the schema declares (timestamp is kept apart, in the document record)
SchemaPaths == {"voltage", "current", "power", "energy", "frequency", "powerFactor"}

\* which body key feeds which energyData field
BodyKeyOf(f) ==
  CASE f = "voltage" -> "vol"
    [] f = "powerFactor" -> "pf"
    [] OTHER -> f

EmptyBody == [k \in BodyKeys |-> Undef]

Canon(k) ==
  CASE k = "vol" -> Num(230)
    [] k = "current" -> Num(2)
    [] k = "power" -> Num(460)
    [] k = "energy" -> Num(5)
    [] k = "frequency" -> Num(50)
    [] k = "pf" -> Num(1)
    [] k = "deviceId" -> Str("d1")
    [] OTHER -> Str("lab")

\* every subset of the accepted fields, each with one valid value
SubsetBodies == {[k \in BodyKeys |-> IF k \in K THEN Canon(k) ELSE Undef] : K \in SUBSET BodyKeys}

\* the edge values of power, pf and vol (zero, negative, numeric and non-numeric strings)
EdgeBodies ==
  {[k \in BodyKeys |-> CASE k = "power" -> p [] k = "pf" -> f [] k = "vol" -> v [] OTHER -> Undef] :
     p \in {Undef, Num(0), Num(460)},
     f \in {Undef, Num(0), Num(1), Num(-1)},
     v \in {Undef, Num(0), Str("230"), Str("abc")}}

IngestBodies == SubsetBodies \cup EdgeBodies

\* the bodies of the query specification: without and with a deviceId
QueryBodies ==
  {EmptyBody,
   [EmptyBody EXCEPT !["deviceId"] = Str("d1"), !["power"] = Num(460)],
   [EmptyBody EXCEPT !["vol"] = Str("abc")]}
\* the bodies of the connector and concurrency specifications
TinyBodies == {EmptyBody, [EmptyBody EXCEPT !["vol"] = Str("abc")]}

----------------------------------------------------------------------------
(* Dates and integers in query strings *)

\* toISOString of the clock values 0, 1, 2, ... (milliseconds after the epoch)
ISO == <<"1970-01-01T00:00:00.000Z", "1970-01-01T00:00:00.001Z",
         "1970-01-01T00:00:00.002Z", "1970-01-01T00:00:00.003Z",
         "1970-01-01T00:00:00.004Z", "1970-01-01T00:00:00.005Z">>

toISOString(t) == ISO[t + 1]

\* new Date(string): the time value, or an Invalid Date
NewDate(s) ==
  IF \E i \in 1..Len(ISO) : ISO[i] = s
    THEN [valid |-> TRUE, t |-> (CHOOSE i \in 1..Len(ISO) : ISO[i] = s) - 1]
    ELSE [valid |-> FALSE, t |-> 0]

Digits == <<"0", "1", "2", "3", "4", "5", "6", "7", "8", "9">>
IsDigit(c) == \E i \in 1..10 : Digits[i] = c
DigitVal(c) == (CHOOSE i \in 1..10 : Digits[i] = c) - 1

\* the value of the longest prefix of digits of cs, read after acc; seen: a digit was read
RECURSIVE ParseDigits(_, _, _)
ParseDigits(cs, acc, seen) ==
  IF cs # <<>> /\ IsDigit(Head(cs))
    THEN ParseDigits(Tail(cs), 10 * acc + DigitVal(Head(cs)), TRUE)
    ELSE [nan |-> ~seen, n |-> acc]

\* parseInt(string): an optional sign, then leading digits; NaN when there is none
parseInt(cs) ==
  IF cs # <<>> /\ Head(cs) = "-"
    THEN LET p == ParseDigits(Tail(cs), 0, FALSE) IN [nan |-> p.nan, n |-> -p.n]
    ELSE ParseDigits(cs, 0, FALSE)

\* castNumber of the schema's Number paths: numbers pass, numeric strings convert,
\* the empty string becomes null, anything else is a CastError
NumericStrings == {"0", "230"}
StringToNumber(s) == IF s = "230" THEN 230 ELSE 0
CastOk(v) == v.t \in {"undefined", "null", "number"} \/ (v.t = "string" /\ v.s \in NumericStrings \cup {""})
CastNumber(v) ==
  CASE v.t = "string" /\ v.s = "" -> Null
    [] v.t = "string" /\ v.s \in NumericStrings -> Num(StringToNumber(v.s))
    [] v.t = "string" -> Undef
    [] OTHER -> v

----------------------------------------------------------------------------
(* The EnergyMeter model *)

NoDoc == [_id |-> 0, timestamp |-> 0, createdAt |-> -1, updatedAt |-> -1,
          fields |-> [p \in SchemaPaths |-> Undef]]

\* a path of a document; a path the document does not hold reads undefined
DocGet(doc, path) == IF path \in DOMAIN doc.fields THEN doc.fields[path] ELSE Undef
HasField(doc, path) == DocGet(doc, path) # Undef

\* energyData of POST /: only the body's defined values are assigned
BuildEnergyData(body) == [f \in DataKeys |-> body[BodyKeyOf(f)]]

\* new EnergyMeter(energyData): the schema is strict, so only declared paths are
\* kept, each cast to its type; timestamp defaults to Date.now
NewEnergyMeter(energyData, id, t) ==
  [_id |-> id, timestamp |-> t, createdAt |-> -1, updatedAt |-> -1,
   fields |-> [p \in SchemaPaths |-> CastNumber(energyData[p])]]

\* the paths whose value could not be cast: save()'s ValidationError
CastErrors(energyData) == {p \in SchemaPaths : ~CastOk(energyData[p])}

\* schema option timestamps: createdAt and updatedAt are set when the document is saved
Stamped(doc, t) == [doc EXCEPT !.createdAt = t, !.updatedAt = t]

\* an insert that replaces the stored document of the same timestamp, as an upsert
\* keyed on timestamp would
InsertOne_Upsert(coll, doc) ==
  IF \E i \in 1..Len(coll) : coll[i].timestamp = doc.timestamp
    THEN [i \in 1..Len(coll) |-> IF coll[i].timestamp = doc.timestamp THEN doc ELSE coll[i]]
    ELSE Append(coll, doc)

\* the collection after an insert
InsertOne(coll, doc) == Append(coll, doc)

\* methods.getApparentPower
getApparentPower(doc) ==
  LET power == DocGet(doc, "power")
      pf == DocGet(doc, "powerFactor")
  IN  IF pf.n = 0
        THEN NonFinite(IF power.n = 0 THEN "NaN" ELSE "Infinity")
        ELSE Num(power.n \div Abs(pf.n))

----------------------------------------------------------------------------
(* GET /readings: the query string, the filter and the find *)

NoLimit == [given |-> FALSE, chars |-> <<>>]
Limit(cs) == [given |-> TRUE, chars |-> cs]
EmptyQuery == [deviceId |-> Undef, startDate |-> Undef, endDate |-> Undef, limit |-> NoLimit]

\* the dates strictly inside the clock's range, so that documents fall before, on and after
DateParams == {Undef, Str("yesterday")} \cup {Str(toISOString(t)) : t \in 1..(MaxTime - 1)}
LimitParams == {NoLimit, Limit(<<"0">>), Limit(<<"1", "x">>)}
Queries ==
  {[deviceId |-> d, startDate |-> a, endDate |-> b, limit |-> l] :
     d \in {Undef, Str(""), Str("d1")}, a \in DateParams, b \in DateParams, l \in LimitParams}
TinyQueries == {[EmptyQuery EXCEPT !.limit = Limit(<<"1">>)],
                [EmptyQuery EXCEPT !.startDate = Str("yesterday")]}

NoBound == [set |-> FALSE, valid |-> TRUE, t |-> 0]
Bound(d) == [set |-> TRUE, valid |-> d.valid, t |-> d.t]
NoFilter == [deviceId |-> Undef, gte |-> NoBound, lte |-> NoBound, limit |-> [nan |-> FALSE, n |-> 0]]

\* the query object of GET /readings and the parsed limit
BuildFilter(q) ==
  [deviceId |-> IF Truthy(q.deviceId) THEN q.deviceId ELSE Undef,
   gte |-> IF Truthy(q.startDate) THEN Bound(NewDate(q.startDate.s)) ELSE NoBound,
   lte |-> IF Truthy(q.endDate) THEN Bound(NewDate(q.endDate.s)) ELSE NoBound,
   limit |-> IF q.limit.given THEN parseInt(q.limit.chars) ELSE [nan |-> FALSE, n |-> DefaultLimit]]

\* an Invalid Date in the filter cannot be cast: find() rejects with a CastError
FilterCastError(f) == (f.gte.set /\ ~f.gte.valid) \/ (f.lte.set /\ ~f.lte.valid)

\* the filter with exclusive date bounds
Matches_Exclusive(doc, f, strict) ==
  /\ f.deviceId = Undef \/ strict \/ DocGet(doc, "deviceId") = f.deviceId
  /\ f.gte.set => doc.timestamp > f.gte.t
  /\ f.lte.set => doc.timestamp < f.lte.t

\* whether a stored document satisfies the filter. deviceId is no path of the
\* schema: under strictQuery the condition is stripped from the filter
Matches(doc, f, strict) ==
  /\ f.deviceId = Undef \/ strict \/ DocGet(doc, "deviceId") = f.deviceId
  /\ f.gte.set => doc.timestamp >= f.gte.t
  /\ f.lte.set => doc.timestamp <= f.lte.t

Matching(coll, f, strict) == {i \in 1..Len(coll) : Matches(coll[i], f, strict)}

\* the sort in ascending order, sort({timestamp: 1})
SortAsc(coll, I) ==
  {[k \in 1..Cardinality(I) |-> coll[p[k]]] :
     p \in {q \in [1..Cardinality(I) -> I] :
              /\ \A a, b \in 1..Cardinality(I) : a # b => q[a] # q[b]
              /\ \A a, b \in 1..Cardinality(I) :
                   a < b => coll[q[a]].timestamp <= coll[q[b]].timestamp}}

\* sort({timestamp: -1}): every order of the matching documents with non-increasing
\* timestamps (the order of equal timestamps is not determined)
SortDesc(coll, I) ==
  {[k \in 1..Cardinality(I) |-> coll[p[k]]] :
     p \in {q \in [1..Cardinality(I) -> I] :
              /\ \A a, b \in 1..Cardinality(I) : a # b => q[a] # q[b]
              /\ \A a, b \in 1..Cardinality(I) :
                   a < b => coll[q[a]].timestamp >= coll[q[b]].timestamp}}

\* limit(n): 0 (and NaN, when the driver accepts it) is no limit, a negative n is |n|
ApplyLimit(docs, l) ==
  IF l.nan \/ l.n = 0 THEN docs
  ELSE SubSeq(docs, 1, IF Abs(l.n) < Len(docs) THEN Abs(l.n) ELSE Len(docs))

----------------------------------------------------------------------------
(* HTTP requests and responses *)

NoMongo == [status |-> "", database |-> "", timestamp |-> "", error |-> Undef]
NoResp == [status |-> 0, message |-> "", data |-> <<>>, count |-> 0, insertedId |-> 0,
           timestamp |-> 0, apparentPower |-> Undef, error |-> "", detailsList |-> {},
           detailsText |-> "", mongodb |-> NoMongo]

Idle == [route |-> "", stage |-> "idle", body |-> EmptyBody, query |-> EmptyQuery,
         filter |-> NoFilter, doc |-> NoDoc, errors |-> {}, resp |-> NoResp, nresp |-> 0]

Conns == 1..MaxConns
ErrMsgs == {"connect ECONNREFUSED", "buffering timed out"}
FindErrMsgs == {"buffering timed out"}

\* a connection can carry a new request once the previous response was sent
Free(r) == reqs[r].stage = "idle"

\* the response of GET / with the error left out
RootResponse_NoError(status, err, uri, t) ==
  [NoResp EXCEPT
     !.status = 200,
     !.message = "Welcome, your app is working well",
     !.mongodb = [status |-> status,
                  database |-> IF Truthy(uri) THEN "Configured" ELSE "Not Configured",
                  timestamp |-> toISOString(t),
                  error |-> Undef]]

\* the response of GET /
RootResponse(status, err, uri, t) ==
  [NoResp EXCEPT
     !.status = 200,
     !.message = "Welcome, your app is working well",
     !.mongodb = [status |-> status,
                  database |-> IF Truthy(uri) THEN "Configured" ELSE "Not Configured",
                  timestamp |-> toISOString(t),
                  error |-> IF Truthy(err) THEN err ELSE Undef]]

\* the 201 response of POST /
SavedResponse(saved) ==
  [NoResp EXCEPT
     !.status = 201,
     !.message = "Energy meter data saved successfully",
     !.data = <<saved>>,
     !.insertedId = saved._id,
     !.timestamp = saved.timestamp,
     !.apparentPower =
        IF Truthy(DocGet(saved, "power")) /\ Truthy(DocGet(saved, "powerFactor"))
          THEN getApparentPower(saved) ELSE Undef]

\* the 400 response of POST /: one message per path that failed
ValidationResponse(errors) ==
  [NoResp EXCEPT !.status = 400, !.error = "Validation failed", !.detailsList = errors]

\* the 500 responses
ErrorResponse(text, msg) == [NoResp EXCEPT !.status = 500, !.error = text, !.detailsText = msg]

\* the 200 response of GET /readings
ReadingsResponse(readings) ==
  [NoResp EXCEPT
     !.status = 200,
     !.message = "Energy meter readings retrieved successfully",
     !.count = Len(readings),
     !.data = readings]

----------------------------------------------------------------------------
(* The storage connector *)

\* connectMongoDB: mongoose.connect resolved
ConnectResolve ==
  /\ connectPc = "awaiting"
  /\ Truthy(mongodbUri)
  /\ mongoConnectionStatus' = "Connected"
  /\ mongoError' = Null
  /\ connectPc' = "resolved"
  /\ UNCHANGED <<mongodbUri, strictQuery, store, nextId, now, reqs, posted>>

\* connectMongoDB: mongoose.connect rejected, the catch block
ConnectReject(msg) ==
  /\ connectPc = "awaiting"
  /\ mongoConnectionStatus' = "Failed"
  /\ mongoError' = Str(msg)
  /\ connectPc' = "rejected"
  /\ UNCHANGED <<mongodbUri, strictQuery, store, nextId, now, reqs, posted>>

\* the "connected" handler without the reset of mongoError
OnConnected_KeepError ==
  /\ mongoConnectionStatus' = "Connected"
  /\ UNCHANGED <<mongoError, connectPc, mongodbUri, strictQuery, store, nextId, now, reqs,
                 posted>>

\* mongoose.connection.on("connected")
OnConnected ==
  /\ mongoConnectionStatus' = "Connected"
  /\ mongoError' = Null
  /\ UNCHANGED <<connectPc, mongodbUri, strictQuery, store, nextId, now, reqs, posted>>

\* mongoose.connection.on("disconnected")
OnDisconnected ==
  /\ mongoConnectionStatus' = "Disconnected"
  /\ UNCHANGED <<mongoError, connectPc, mongodbUri, strictQuery, store, nextId, now, reqs,
                 posted>>

\* mongoose.connection.on("error")
OnError(msg) ==
  /\ mongoConnectionStatus' = "Error"
  /\ mongoError' = Str(msg)
  /\ UNCHANGED <<connectPc, mongodbUri, strictQuery, store, nextId, now, reqs, posted>>

Connector ==
  \/ ConnectResolve
  \/ \E msg \in ErrMsgs : ConnectReject(msg)
  \/ OnConnected
  \/ OnDisconnected
  \/ \E msg \in ErrMsgs : OnError(msg)

\* time passes
Tick ==
  /\ now < MaxTime
  /\ now' = now + 1
  /\ UNCHANGED <<mongoConnectionStatus, mongoError, connectPc, mongodbUri, strictQuery,
                 store, nextId, reqs, posted>>

----------------------------------------------------------------------------
(* The HTTP service *)

\* res.status(..).json(..): the request is answered
Respond(req, resp) == [req EXCEPT !.stage = "done", !.resp = resp, !.nresp = @ + 1]

connVars == <<mongoConnectionStatus, mongoError, connectPc, mongodbUri, strictQuery>>

\* app.get("/")
GetRoot(r) ==
  /\ Free(r)
  /\ reqs' = [reqs EXCEPT ![r] =
       Respond([Idle EXCEPT !.route = "GET /"],
               RootResponse(mongoConnectionStatus, mongoError, mongodbUri, now))]
  /\ UNCHANGED <<connVars, store, posted, nextId, now>>

\* app.post("/"), up to the await of save(): the document is built from the body
PostBegin(r, body) ==
  /\ Free(r)
  /\ reqs' = [reqs EXCEPT ![r] =
       [Idle EXCEPT !.route = "POST /", !.stage = "saving", !.body = body,
                    !.doc = NewEnergyMeter(BuildEnergyData(body), nextId, now),
                    !.errors = CastErrors(BuildEnergyData(body))]]
  /\ nextId' = nextId + 1
  /\ UNCHANGED <<connVars, store, posted, now>>

\* app.post("/") without a parsed body: destructuring req.body throws inside the try
PostBadBody(r) ==
  /\ Free(r)
  /\ reqs' = [reqs EXCEPT ![r] =
       Respond([Idle EXCEPT !.route = "POST /"],
               ErrorResponse("Internal server error while saving data",
                             "Cannot destructure property 'vol' of 'req.body'"))]
  /\ UNCHANGED <<connVars, store, posted, nextId, now>>

\* app.post("/"): save() resolved, the 201 response
PostSaved(r) ==
  /\ reqs[r].stage = "saving"
  /\ reqs[r].errors = {}
  /\ LET saved == Stamped(reqs[r].doc, now) IN
       /\ store' = InsertOne(store, saved)
       /\ posted' = Append(posted, reqs[r].body)
       /\ reqs' = [reqs EXCEPT ![r] = Respond([@ EXCEPT !.doc = saved], SavedResponse(saved))]
  /\ UNCHANGED <<connVars, nextId, now>>

\* the catch block without the return of its ValidationError branch: the 500 response follows
PostInvalid_NoReturn(r) ==
  /\ reqs[r].stage = "saving"
  /\ reqs[r].errors # {}
  /\ reqs' = [reqs EXCEPT ![r] =
       Respond(Respond(@, ValidationResponse(reqs[r].errors)),
               ErrorResponse("Internal server error while saving data", "Validation failed"))]
  /\ UNCHANGED <<connVars, store, posted, nextId, now>>

\* app.post("/"): save() rejected with a ValidationError, the 400 response
PostInvalid(r) ==
  /\ reqs[r].stage = "saving"
  /\ reqs[r].errors # {}
  /\ reqs' = [reqs EXCEPT ![r] = Respond(@, ValidationResponse(reqs[r].errors))]
  /\ UNCHANGED <<connVars, store, posted, nextId, now>>

\* a 500 branch that also records the failure in the connector's status
PostSaveError_SetsStatus(r, msg) ==
  /\ reqs[r].stage = "saving"
  /\ reqs[r].errors = {}
  /\ reqs' = [reqs EXCEPT ![r] =
       Respond(@, ErrorResponse("Internal server error while saving data", msg))]
  /\ mongoConnectionStatus' = "Error"
  /\ mongoError' = Str(msg)
  /\ UNCHANGED <<connectPc, mongodbUri, strictQuery, store, posted, nextId, now>>

\* app.post("/"): save() rejected with any other error, the 500 response
PostSaveError(r, msg) ==
  /\ reqs[r].stage = "saving"
  /\ reqs[r].errors = {}
  /\ reqs' = [reqs EXCEPT ![r] =
       Respond(@, ErrorResponse("Internal server error while saving data", msg))]
  /\ UNCHANGED <<connVars, store, posted, nextId, now>>

\* app.get("/readings"), up to the await of the find
GetReadingsBegin(r, q) ==
  /\ Free(r)
  /\ reqs' = [reqs EXCEPT ![r] =
       [Idle EXCEPT !.route = "GET /readings", !.stage = "finding", !.query = q,
                    !.filter = BuildFilter(q)]]
  /\ UNCHANGED <<connVars, store, posted, nextId, now>>

\* app.get("/readings"): the find resolved, the 200 response
GetReadingsFound(r) ==
  /\ reqs[r].stage = "finding"
  /\ ~FilterCastError(reqs[r].filter)
  /\ \E sorted \in SortDesc(store, Matching(store, reqs[r].filter, strictQuery)) :
       reqs' = [reqs EXCEPT ![r] =
         Respond(@, ReadingsResponse(ApplyLimit(sorted, reqs[r].filter.limit)))]
  /\ UNCHANGED <<connVars, store, posted, nextId, now>>

\* app.get("/readings"): the find rejected with a CastError, the 500 response
GetReadingsCastError(r) ==
  /\ reqs[r].stage = "finding"
  /\ FilterCastError(reqs[r].filter)
  /\ reqs' = [reqs EXCEPT ![r] =
       Respond(@, ErrorResponse("Internal server error while retrieving data",
                                "Cast to date failed"))]
  /\ UNCHANGED <<connVars, store, posted, nextId, now>>

\* app.get("/readings"): the find rejected by the driver or the database, the 500 response
GetReadingsFailed(r, msg) ==
  /\ reqs[r].stage = "finding"
  /\ ~FilterCastError(reqs[r].filter)
  /\ reqs' = [reqs EXCEPT ![r] =
       Respond(@, ErrorResponse("Internal server error while retrieving data", msg))]
  /\ UNCHANGED <<connVars, store, posted, nextId, now>>

\* the answered request leaves the connection, which can carry the next one
Release(r) ==
  /\ reqs[r].stage = "done"
  /\ reqs' = [reqs EXCEPT ![r] = Idle]
  /\ UNCHANGED <<connVars, store, posted, nextId, now>>

\* the requests of connection r: bodies and queries drawn from the given sets, at
\* most cap documents constructed
Http(r, bodies, queries, cap) ==
  \/ GetRoot(r)
  \/ \E body \in bodies : nextId <= cap /\ PostBegin(r, body)
  \/ PostBadBody(r)
  \/ PostSaved(r)
  \/ PostInvalid(r)
  \/ \E msg \in ErrMsgs : PostSaveError(r, msg)
  \/ \E q \in queries : GetReadingsBegin(r, q)
  \/ GetReadingsFound(r)
  \/ GetReadingsCastError(r)
  \/ \E msg \in FindErrMsgs : GetReadingsFailed(r, msg)
  \/ Release(r)

----------------------------------------------------------------------------
(* Specifications *)

Uris == {Undef, Str("mongodb://db/energy")}

\* the state after the module is loaded and connectMongoDB() was called
Init ==
  /\ mongoConnectionStatus = "Disconnected"
  /\ mongoError = Null
  /\ connectPc = "awaiting"
  /\ mongodbUri \in Uris
  /\ strictQuery \in BOOLEAN
  /\ store = <<>>
  /\ posted = <<>>
  /\ nextId = 1
  /\ now = 0
  /\ reqs = [r \in Conns |-> Idle]

\* the state once mongoose.connect has resolved
InitConnected ==
  /\ mongoConnectionStatus = "Connected"
  /\ mongoError = Null
  /\ connectPc = "resolved"
  /\ mongodbUri = Str("mongodb://db/energy")
  /\ strictQuery \in BOOLEAN
  /\ store = <<>>
  /\ posted = <<>>
  /\ nextId = 1
  /\ now = 0
  /\ reqs = [r \in Conns |-> Idle]

\* the connector and the service, one request at a time
Next == Connector \/ Tick \/ Http(1, TinyBodies, TinyQueries, MaxPosts)
Spec == Init /\ [][Next]_vars

\* the service with requests in flight on every connection, within one clock tick
NextConcurrent == \E r \in Conns : Http(r, TinyBodies, TinyQueries, MaxPosts)
SpecConcurrent == InitConnected /\ [][NextConcurrent]_vars

\* ingestion: every body of IngestBodies, within one clock tick
NextIngest == Http(1, IngestBodies, TinyQueries, MaxIngestPosts)
SpecIngest == InitConnected /\ [][NextIngest]_vars

\* queries: every query of Queries over up to MaxQueryPosts documents
NextQuery == Tick \/ Http(1, QueryBodies, Queries, MaxQueryPosts)
SpecQuery == InitConnected /\ [][NextQuery]_vars

----------------------------------------------------------------------------
(* Properties of POST / *)

Posted201(r) == reqs[r].route = "POST /" /\ reqs[r].stage = "done" /\ reqs[r].resp.status = 201

\* a payload whose numeric fields hold numbers and whose string fields hold strings
ValidBody(b) ==
  \A k \in BodyKeys :
    b[k] # Undef => b[k].t = (IF k \in {"deviceId", "location"} THEN "string" ELSE "number")

\* C1: after a 201, the stored record holds exactly the fields of the (valid) body,
\* deviceId and location included, with unchanged values, and data returns them
C1_StoresExactlyBodyFields ==
  \A r \in Conns :
    Posted201(r) /\ ValidBody(reqs[r].body) =>
      LET d == reqs[r].resp.data[1] IN
        /\ \E i \in 1..Len(store) : store[i] = d
        /\ \A f \in DataKeys :
             /\ HasField(d, f) <=> reqs[r].body[BodyKeyOf(f)] # Undef
             /\ DocGet(d, f) = reqs[r].body[BodyKeyOf(f)]

\* C2: in a 201 response apparentPower is present exactly when the stored record
\* has both power and powerFactor defined, zero values included
C2_ApparentPowerIffDefined ==
  \A r \in Conns :
    Posted201(r) =>
      LET d == reqs[r].resp.data[1] IN
        (reqs[r].resp.apparentPower # Undef) <=>
          (HasField(d, "power") /\ HasField(d, "powerFactor"))

\* a value the schema's Number type rejects: a string that is no number
Uncastable(v) == v.t = "string" /\ v.s \notin {"", "0", "230"}

----------------------------------------------------------------------------
(* Properties of GET /readings *)

Read200(r) ==
  reqs[r].route = "GET /readings" /\ reqs[r].stage = "done" /\ reqs[r].resp.status = 200

Min(a, b) == IF a < b THEN a ELSE b

\* the records of the store a request asked for: those of its deviceId, when it
\* names one, within its dates
PostedWith(i, x) == posted[i]["deviceId"] = x
TimeOf(s) == (CHOOSE i \in 1..Len(ISO) : ISO[i] = s) - 1
InDates(q, t) ==
  /\ q.startDate.s # "" => TimeOf(q.startDate.s) <= t
  /\ q.endDate.s # "" => t <= TimeOf(q.endDate.s)
Asked(q) ==
  {i \in 1..Len(store) :
     /\ q.deviceId.s # "" => PostedWith(i, q.deviceId)
     /\ InDates(q, store[i].timestamp)}

\* the returned list is the first k records of some descending order of the set I
\* of stored records: k distinct records of I in non-increasing timestamp order,
\* none of the omitted ones more recent than a returned one
FirstOfDesc(data, I, k) ==
  /\ Len(data) = k
  /\ \A a \in 1..Len(data) : \E i \in I : store[i] = data[a]
  /\ \A a, b \in 1..Len(data) : a < b =>
       data[a] # data[b] /\ data[a].timestamp >= data[b].timestamp
  /\ \A i \in I : (\A a \in 1..Len(data) : data[a] # store[i]) =>
       \A a \in 1..Len(data) : store[i].timestamp <= data[a].timestamp

\* the records the code matches: no document holds a deviceId, and the filter's
\* deviceId condition is dropped or kept according to the build
CodeMatched(q) ==
  {i \in 1..Len(store) :
     /\ InDates(q, store[i].timestamp)
     /\ q.deviceId.s # "" => strictQuery}

\* the limit L of a request whose limit parameter is an integer (50 when absent)
HasIntLimit(r) == ~reqs[r].filter.limit.nan
LimitL(r) == reqs[r].filter.limit.n

\* C3 as stated: for any limit L (here L >= 0), a 200 response returns the first
\* min(L, n) of the n matching records in descending timestamp order, at most L
\* of them, and count is its length
C3_AnyLimit ==
  \A r \in Conns :
    Read200(r) /\ HasIntLimit(r) /\ LimitL(r) >= 0 =>
      /\ FirstOfDesc(reqs[r].resp.data, CodeMatched(reqs[r].query),
                     Min(LimitL(r), Cardinality(CodeMatched(reqs[r].query))))
      /\ Len(reqs[r].resp.data) <= LimitL(r)
      /\ reqs[r].resp.count = Len(reqs[r].resp.data)

\* C3 amended: the same for every positive limit L
C3_PositiveLimit ==
  \A r \in Conns :
    Read200(r) /\ HasIntLimit(r) /\ LimitL(r) >= 1 =>
      /\ FirstOfDesc(reqs[r].resp.data, CodeMatched(reqs[r].query),
                     Min(LimitL(r), Cardinality(CodeMatched(reqs[r].query))))
      /\ Len(reqs[r].resp.data) <= LimitL(r)
      /\ reqs[r].resp.count = Len(reqs[r].resp.data)

\* limit=1x over two stored records with distinct timestamps: the more recent one
C3_Witness ==
  \E r \in Conns :
    /\ Read200(r) /\ reqs[r].query.limit = Limit(<<"1", "x">>)
    /\ Len(store) = 2 /\ Cardinality(CodeMatched(reqs[r].query)) = 2
    /\ store[1].timestamp < store[2].timestamp
    /\ reqs[r].resp.data = <<store[2]>> /\ reqs[r].resp.count = 1

\* C4: GET /readings?deviceId=X returns only records whose deviceId is X, and
\* every record posted with deviceId X that falls within the limit
C4_DeviceIdFilter ==
  \A r \in Conns :
    Read200(r) /\ reqs[r].query.deviceId.s # "" /\ HasIntLimit(r) /\ LimitL(r) >= 1 =>
      /\ \A a \in 1..Len(reqs[r].resp.data) :
           DocGet(reqs[r].resp.data[a], "deviceId") = reqs[r].query.deviceId
      /\ FirstOfDesc(reqs[r].resp.data, Asked(reqs[r].query),
                     Min(LimitL(r), Cardinality(Asked(reqs[r].query))))

\* C5: every returned record lies within the inclusive date bounds given, and
\* without bounds (and without the other parameters) every stored record is returned
C5_DateRange ==
  \A r \in Conns :
    Read200(r) =>
      /\ \A a \in 1..Len(reqs[r].resp.data) :
           InDates(reqs[r].query, reqs[r].resp.data[a].timestamp)
      /\ reqs[r].query = EmptyQuery =>
           \A i \in 1..Len(store) : \E a \in 1..Len(reqs[r].resp.data) :
             reqs[r].resp.data[a] = store[i]
      /\ (reqs[r].query.deviceId.s = "" /\ ~reqs[r].query.limit.given) =>
           \A i \in 1..Len(store) : InDates(reqs[r].query, store[i].timestamp) =>
             \E a \in 1..Len(reqs[r].resp.data) : reqs[r].resp.data[a] = store[i]

\* startDate = endDate = 1 ms over records stamped 1 and 2: the one stamped 1
C5_Witness ==
  \E r \in Conns :
    /\ Read200(r)
    /\ reqs[r].query.startDate = Str(toISOString(1))
    /\ reqs[r].query.endDate = Str(toISOString(1))
    /\ Len(store) = 2
    /\ store[1].timestamp = 1 /\ store[2].timestamp = 2
    /\ reqs[r].resp.data = <<store[1]>>

----------------------------------------------------------------------------
(* Properties of the storage connector and of GET / *)

\* C7 as stated: a failed connect sets the status "Failed", and from "Failed" the
\* status changes only to "Connected", by the "connected" event
C7_FailedUntilConnected ==
  [][/\ (connectPc = "awaiting" /\ connectPc' = "rejected") => mongoConnectionStatus' = "Failed"
     /\ mongoConnectionStatus = "Failed" =>
          mongoConnectionStatus' = "Failed" \/ OnConnected]_vars

\* C7 amended: a failed connect sets the status "Failed", and the status leaves
\* "Failed" only by a lifecycle event (connected, disconnected or error), never by
\* an HTTP request
C7_FailedUntilEvent ==
  [][/\ (connectPc = "awaiting" /\ connectPc' = "rejected") => mongoConnectionStatus' = "Failed"
     /\ (mongoConnectionStatus = "Failed" /\ mongoConnectionStatus' # "Failed") =>
          OnConnected \/ OnDisconnected \/ \E msg \in ErrMsgs : OnError(msg)]_vars

\* the connect failed and a POST / then failed with a 500 while the status is "Failed"
C7_Witness ==
  /\ connectPc = "rejected" /\ mongoConnectionStatus = "Failed"
  /\ \E r \in Conns :
       reqs[r].route = "POST /" /\ reqs[r].stage = "done" /\ reqs[r].resp.status = 500

C10_StatusErrorCoherent ==
  /\ [](/\ mongoConnectionStatus = "Connected" => mongoError = Null
        /\ mongoConnectionStatus \in {"Failed", "Error"} => mongoError # Null)
  /\ [][(mongoConnectionStatus # "Disconnected" /\ mongoConnectionStatus' = "Disconnected")
          => mongoError' = mongoError]_vars

\* "Disconnected" beside a stale error, after the connect was rejected
C10_Witness ==
  /\ mongoConnectionStatus = "Disconnected"
  /\ mongoError # Null
  /\ connectPc = "rejected"

----------------------------------------------------------------------------
(* The store *)

\* C9: the store is append-only: every step keeps the stored records as they
\* are, a step adds a record exactly when a POST / is answered 201, the record it
\* returns, and no two stored records share an id
C9_AppendOnly ==
  [][LET saved == {r \in Conns : reqs[r].stage = "saving" /\ reqs'[r].stage = "done"
                                   /\ reqs'[r].resp.status = 201}
     IN  /\ Len(store') = Len(store) + Cardinality(saved)
         /\ \A i \in 1..Len(store) : store'[i] = store[i]
         /\ \A r \in saved : store'[Len(store')] = reqs'[r].resp.data[1]
         /\ \A i, j \in 1..Len(store') : i # j => store'[i]._id # store'[j]._id]_vars

\* two POSTs in flight at once, saved in the reverse of their order of arrival,
\* with the same timestamp; both records are stored
C9_Witness ==
  /\ Len(store) = 2
  /\ store[1]._id = 2 /\ store[2]._id = 1
  /\ store[1].timestamp = store[2].timestamp
  /\ \A r \in {1, 2} : reqs[r].route = "POST /" /\ reqs[r].stage = "done"
                        /\ reqs[r].resp.status = 201

====
